---------------------------- MODULE Spec2Model ----------------------------
(***************************************************************************)
(* A model of the TMDb -> Snowflake ingestion pipeline:                    *)
(*   src/src/extract.py  TMDbExtractor (_get with its retry decorator,     *)
(*                       the paginated list reader, the deduplicating      *)
(*                       detail stream)                                    *)
(*   src/src/load.py     SnowflakeLoader (MERGE upsert into RAW_MOVIES,    *)
(*                       snapshot rows of RAW_GENRES, the connection)      *)
(*   src/src/main.py     run_pipeline (extract, then load, and its stats)  *)
(*                                                                         *)
(* Time is counted in hundredths of a second (cs): 1 s = 100.             *)
(***************************************************************************)
EXTENDS Integers, Sequences, FiniteSets, Bags, TLC

(***************************************************************************)
(* Bounds of the model.                                                    *)
(***************************************************************************)
\* Largest Retry-After number of seconds the modelled server sends.
MaxRetryAfter == 2
\* Movie identifiers the modelled server lists: 1..MaxId (and the absent id);
\* a list page carries at most MaxId items.
MaxId == 2
\* Largest total_pages of the server; a caller asks for up to one page more.
MaxPages == 2
\* Longest list handed to load_movies, and its largest batch_size.
MaxMovies == 2
\* Longest genre list handed to load_genres.
MaxGenres == 2
\* Longest list, and largest batch_size, of a load_movies call followed batch
\* by batch.
MaxBatch == 3

(***************************************************************************)
(* Program constants.                                                      *)
(***************************************************************************)
\* extract.py:35  RATE_LIMIT_REQUESTS = 40
RATE_LIMIT_REQUESTS == 40
\* extract.py:36  RATE_LIMIT_WINDOW_SECONDS = 10
RATE_LIMIT_WINDOW_SECONDS == 10
\* extract.py:38  REQUEST_DELAY_SECONDS = 0.26, in cs.
REQUEST_DELAY_SECONDS == 26
\* extract.py:86  stop=stop_after_attempt(5)
StopAfterAttempt == 5
\* extract.py:88  wait_exponential(multiplier=1, min=1, max=30), in seconds.
WaitMultiplier == 1
WaitMin == 1
WaitMax == 30
\* extract.py:120  response.headers.get("Retry-After", 10)
DefaultRetryAfter == 10
\* One second, in cs.
Second == 100

\* list_movie.get("id") of an item that carries no "id": Python's None.
NoId == 0

Max(a, b) == IF a >= b THEN a ELSE b
Min(a, b) == IF a <= b THEN a ELSE b

RECURSIVE Pow2(_)
Pow2(n) == IF n <= 0 THEN 1 ELSE 2 * Pow2(n - 1)

VARIABLES
    get_state,       \* _get: "idle", "running", "returned", "raised"
    endpoint,        \* _get: the endpoint of the call in progress
    hist,            \* _get: the HTTP attempts of the call so far, oldest first
    slept,           \* _get: cs slept since the last response was received
    result,          \* _get: what the call gave its caller
    recent,          \* the HTTP requests of the last rate-limit window: their ages in cs
    srv_total_pages, \* the server: the total_pages its list endpoint reports
    ex_pc,           \* the stream: "idle", "fetch_page", "await_page", "items",
                     \*   "await_detail", "done", "aborted"
    pages_to_fetch,  \* extract_popular_movies: pages_to_fetch
    page,            \* extract_popular_movies: page
    movies_on_page,  \* extract_popular_movies: the items of the page not yet yielded
    total_pages,     \* extract_popular_movies: total_pages of the last page read
    seen_ids,        \* extract_movies_with_details: seen_ids
    yielded,         \* the records the stream has yielded, in order
    pages_fetched,   \* the list pages requested by the stream, in order
    ex_error,        \* the exception that ended the stream, and the call it left
    detail_calls,    \* per list identifier: the calls of extract_movie_detail so far
    table,           \* BRONZE.RAW_MOVIES: a bag of rows
    now,             \* the storage side's clock, read by datetime.now()
    ld,              \* per pipeline run: its SnowflakeLoader and its load_movies call
    snapshot,        \* BRONZE.RAW_GENRES: a bag of rows
    stmt_log,        \* the statements handed to cursor.execute, oldest first
    checks,          \* run_post_load_checks: what it logged about RAW_MOVIES
    pl_pc,           \* run_pipeline: the statement it is at
    dry_run,         \* run_pipeline: dry_run
    pl_pages,        \* run_pipeline: pages_to_fetch
    stats,           \* run_pipeline: stats
    genres,          \* run_pipeline: genres
    session,         \* the extractor's requests.Session: "none", "open", "closed"
    pl_error,        \* the exception that left run_pipeline, and the step it left
    exit_code        \* main: <<its return value>>, <<>> while it runs

get_vars == <<get_state, endpoint, hist, slept, result, recent>>
ex_vars == <<srv_total_pages, ex_pc, pages_to_fetch, page, movies_on_page,
             total_pages, seen_ids, yielded, pages_fetched, ex_error, detail_calls>>
ld_vars == <<table, now, ld, snapshot, stmt_log, checks>>
pl_vars == <<pl_pc, dry_run, pl_pages, stats, genres, session, pl_error, exit_code>>
vars == <<get_vars, ex_vars, ld_vars, pl_vars>>

(***************************************************************************)
(* The API server: what one HTTP attempt can meet.                         *)
(***************************************************************************)
NoEndpoint == [path |-> "none", arg |-> 0]
\* "/movie/popular" with params {"page": page}
PopularEndpoint(p) == [path |-> "popular", arg |-> p]
\* f"/movie/{movie_id}"
DetailEndpoint(movie_id) == [path |-> "detail", arg |-> movie_id]

\* The identifiers a list item can carry: a movie id, or none at all.
ListIds == {NoId} \cup 1..MaxId
\* The "results" of one list page.
PageResults == UNION {[1..n -> ListIds] : n \in 0..MaxId}

NoHeader == [form |-> "absent", seconds |-> 0]
DateHeader == [form |-> "http_date", seconds |-> 0]
SecondsHeader(n) == [form |-> "seconds", seconds |-> n]
RetryAfterHeaders ==
    {NoHeader, DateHeader} \cup {SecondsHeader(n) : n \in (-1)..MaxRetryAfter}

\* The dicts of a genre list, and the genre lists of up to MaxGenres entries.
GenreDicts == {[id |-> 28, name |-> "Action"], [id |-> 18, name |-> "Drama"]}
GenreLists == UNION {[1..n -> GenreDicts] : n \in 0..MaxGenres}
GenreEndpoint == [path |-> "genres", arg |-> 0]

NoBody == [path |-> "none"]
\* The decoded JSON body of a successful answer of endpoint ep.
\* The detail endpoint answers with the record of the identifier asked for; the
\* list endpoint with a page of items and the server's total_pages (a body
\* without "results" or "total_pages" reads as results [] and total_pages 1);
\* the genre endpoint with a genre list (a body without "genres" reads as []).
Bodies(ep) ==
    CASE ep.path = "detail"  -> {[path |-> "detail", id |-> ep.arg]}
      [] ep.path = "genres"  -> {[path |-> "genres", genres |-> g] : g \in GenreLists}
      [] ep.path = "popular" ->
            {[path |-> "popular", results |-> r, total_pages |-> srv_total_pages] :
                r \in PageResults}
      [] OTHER -> {NoBody}

Http(status, header, body) ==
    [kind |-> "http", status |-> status, retry_after |-> header, body |-> body]
Timeout == [kind |-> "timeout", status |-> 0, retry_after |-> NoHeader, body |-> NoBody]
ConnectionError ==
    [kind |-> "connection_error", status |-> 0, retry_after |-> NoHeader, body |-> NoBody]

ClientErrorStatuses == {401, 404}
ServerErrorStatuses == {500, 503}

\* Every answer the server can give to one attempt on endpoint ep.
Responses(ep) ==
    {Http(200, NoHeader, b) : b \in Bodies(ep)}
    \cup {Http(s, NoHeader, NoBody) : s \in ClientErrorStatuses \cup ServerErrorStatuses}
    \cup {Http(429, h, NoBody) : h \in RetryAfterHeaders}
    \cup {Timeout, ConnectionError}

(***************************************************************************)
(* TMDbExtractor._get: one attempt (the function body), and the retry      *)
(* decorator around it.                                                    *)
(***************************************************************************)
Return(body) == [tag |-> "return", body |-> body, exc |-> "none", cause |-> "none"]
Raise(exc, cause) == [tag |-> "raise", body |-> NoBody, exc |-> exc, cause |-> cause]
NoResult == [tag |-> "none", body |-> NoBody, exc |-> "none", cause |-> "none"]

\* A _get that takes a missing Retry-After header as no wait at all.
RetryAfterNoDefault(h) ==
    CASE h.form = "absent"  -> [ok |-> TRUE, seconds |-> 0]
      [] h.form = "seconds" -> [ok |-> TRUE, seconds |-> h.seconds]
      [] OTHER              -> [ok |-> FALSE, seconds |-> 0]

\* int(response.headers.get("Retry-After", 10)): the seconds, or the ValueError
\* int() raises on a value that is not an integer literal.
RetryAfterParsed(h) ==
    CASE h.form = "absent"  -> [ok |-> TRUE, seconds |-> DefaultRetryAfter]
      [] h.form = "seconds" -> [ok |-> TRUE, seconds |-> h.seconds]
      [] OTHER              -> [ok |-> FALSE, seconds |-> 0]

\* A _get that raises on a 429 without sleeping for Retry-After.
NoSleepOn429(seconds) == 0

\* time.sleep(retry_after) on a 429: the cs slept in the body of _get.
SleepOn429(seconds) == seconds * Second

\* The body of _get met with answer resp: what it returns or raises, and the
\* cs it sleeps after the answer (time.sleep(retry_after) on a 429).
Attempt(resp) ==
    IF resp.kind = "timeout" THEN [out |-> Raise("Timeout", "none"), sleep |-> 0]
    ELSE IF resp.kind = "connection_error"
    THEN [out |-> Raise("ConnectionError", "none"), sleep |-> 0]
    ELSE IF resp.status = 429
    THEN LET ra == RetryAfterParsed(resp.retry_after) IN
         IF ~ra.ok \/ ra.seconds < 0
         THEN \* int() or time.sleep() raises ValueError
              [out |-> Raise("ValueError", "none"), sleep |-> 0]
         ELSE [out |-> Raise("TMDbAPIError", "none"), sleep |-> SleepOn429(ra.seconds)]
    ELSE IF resp.status >= 500
    THEN [out |-> Raise("TMDbAPIError", "none"), sleep |-> 0]
    ELSE IF resp.status >= 400
    THEN [out |-> Raise("ValueError", "none"), sleep |-> 0]
    ELSE [out |-> Return(resp.body), sleep |-> 0]

\* A decorator that retries on every exception, the client faults included.
RetryIfAnyException(exc) == TRUE

\* retry=retry_if_exception_type((requests.Timeout, requests.ConnectionError, TMDbAPIError))
RetryIfExceptionType(exc) == exc \in {"Timeout", "ConnectionError", "TMDbAPIError"}

\* A decorator that gives up one attempt early, or one attempt late.
StopOneEarly(attempt_number) == attempt_number >= StopAfterAttempt - 1
StopOneLate(attempt_number) == attempt_number >= StopAfterAttempt + 1

\* stop=stop_after_attempt(5)
StopNow(attempt_number) == attempt_number >= StopAfterAttempt

\* wait=wait_exponential(multiplier=1, min=1, max=30), in cs.
WaitExponential(attempt_number) ==
    Second * Max(Max(0, WaitMin), Min(WaitMultiplier * Pow2(attempt_number - 1), WaitMax))

\* A _get whose spacing sleep is outside the retried function: only the first
\* attempt of a call waits.
SleepBeforeFirstOnly(attempt_number) ==
    IF attempt_number = 1 THEN REQUEST_DELAY_SECONDS ELSE 0

\* A spacing sleep one hundredth of a second shorter.
SleepShorter(attempt_number) == REQUEST_DELAY_SECONDS - 1

\* time.sleep(REQUEST_DELAY_SECONDS), the first statement of the retried
\* function body after the url is built: slept before the request of every
\* attempt.
SleepBeforeRequest(attempt_number) == REQUEST_DELAY_SECONDS

\* What the decorator raises once the attempts are used up: no reraise=True is
\* given, so the last attempt's error is wrapped in tenacity's RetryError.
Exhausted(exc) == Raise("RetryError", exc)

\* The caller invokes _get(endpoint).
GetCall(ep) ==
    /\ get_state = "idle"
    /\ get_state' = "running"
    /\ endpoint' = ep
    /\ hist' = <<>>
    /\ slept' = 0
    /\ result' = NoResult
    /\ UNCHANGED recent

\* One attempt of the running call: the inter-request sleep, the request, the
\* body of _get on its answer, and the decorator's decision.
GetAttempt(resp) ==
    /\ get_state = "running"
    /\ LET attempt_number == Len(hist) + 1
           a == Attempt(resp)
           entry == [resp |-> resp, gap |-> slept + SleepBeforeRequest(attempt_number)]
       IN  /\ hist' = Append(hist, entry)
           /\ IF a.out.tag = "return"
              THEN /\ get_state' = "returned"
                   /\ result' = a.out
                   /\ slept' = a.sleep
              ELSE IF ~RetryIfExceptionType(a.out.exc)
              THEN /\ get_state' = "raised"
                   /\ result' = a.out
                   /\ slept' = a.sleep
              ELSE IF StopNow(attempt_number)
              THEN /\ get_state' = "raised"
                   /\ result' = Exhausted(a.out.exc)
                   /\ slept' = a.sleep
              ELSE /\ get_state' = "running"
                   /\ result' = NoResult
                   /\ slept' = a.sleep + WaitExponential(attempt_number)
    /\ UNCHANGED endpoint
    /\ UNCHANGED <<ex_vars, ld_vars, pl_vars>>

\* The caller of a stand-alone _get call takes its outcome.
GetDone ==
    /\ get_state \in {"returned", "raised"}
    /\ get_state' = "idle"
    /\ endpoint' = NoEndpoint
    /\ hist' = <<>>
    /\ slept' = 0
    /\ result' = NoResult
    /\ UNCHANGED recent

InitGet ==
    /\ get_state = "idle"
    /\ endpoint = NoEndpoint
    /\ hist = <<>>
    /\ slept = 0
    /\ result = NoResult
    /\ recent = <<>>

NoError == [exc |-> "none", during |-> "none"]

InitExtract ==
    /\ srv_total_pages = 1
    /\ ex_pc = "idle"
    /\ pages_to_fetch = 0
    /\ page = 0
    /\ movies_on_page = <<>>
    /\ total_pages = 0
    /\ seen_ids = {}
    /\ yielded = <<>>
    /\ pages_fetched = <<>>
    /\ ex_error = NoError
    /\ detail_calls = [movie_id \in ListIds |-> 0]

\* The pipeline runs that load: each has its own loader, whose batch_id (a
\* uuid4) is modelled by the number of the run.
Runs == {1, 2}

\* SnowflakeLoader.__init__: self.conn = None, self.batch_id = str(uuid.uuid4());
\* with it the state of the loader's load_genres and load_movies calls.
NewLoader(r) ==
    [pc |-> "new", batch_id |-> r, movies |-> <<>>, batch_size |-> 0, pos |-> 0,
     total_loaded |-> 0, ingested_at |-> 0,
     conn |-> "none", genres_pc |-> "new", genres |-> <<>>, genres_loaded |-> 0,
     rows |-> <<>>]

InitLoad ==
    /\ table = EmptyBag
    /\ now = 1
    /\ ld = [r \in Runs |-> NewLoader(r)]
    /\ snapshot = EmptyBag
    /\ stmt_log = <<>>
    /\ checks = "none"

\* main.py:99  stats = {...}, without its clock readings.
NewStats ==
    [pages_fetched |-> 0, movies_extracted |-> 0, genres_extracted |-> 0,
     movies_loaded |-> 0, genres_loaded |-> 0, errors |-> 0]

InitPipeline ==
    /\ pl_pc = "idle"
    /\ dry_run = FALSE
    /\ pl_pages = 0
    /\ stats = NewStats
    /\ genres = <<>>
    /\ session = "none"
    /\ pl_error = NoError
    /\ exit_code = <<>>

Init == InitGet /\ InitExtract /\ InitLoad /\ InitPipeline

(***************************************************************************)
(* TMDbExtractor.extract_popular_movies and extract_movies_with_details:   *)
(* the stream, consumed to its end.                                        *)
(***************************************************************************)
\* The caller of _get takes its outcome: the call is over.
GetOver ==
    /\ get_state' = "idle"
    /\ endpoint' = NoEndpoint
    /\ hist' = <<>>
    /\ slept' = 0
    /\ result' = NoResult
    /\ UNCHANGED recent

\* pages or self.config.pages_to_fetch: a missing (or zero) argument gives the
\* configured default.
PagesToFetch(pages, config_pages) == IF pages # 0 THEN pages ELSE config_pages

\* The consumer starts extract_movies_with_details(pages) against a server
\* whose list has tp pages.
ExtractStart(pages, config_pages, tp) ==
    /\ UNCHANGED <<ld_vars, pl_vars>>
    /\ ex_pc = "idle"
    /\ get_state = "idle"
    /\ srv_total_pages' = tp
    /\ pages_to_fetch' = PagesToFetch(pages, config_pages)
    /\ page' = 1
    /\ ex_pc' = IF pages_to_fetch' >= 1 THEN "fetch_page" ELSE "done"
    /\ movies_on_page' = <<>>
    /\ total_pages' = 0
    /\ seen_ids' = {}
    /\ yielded' = <<>>
    /\ pages_fetched' = <<>>
    /\ ex_error' = NoError
    /\ detail_calls' = [movie_id \in ListIds |-> 0]
    /\ UNCHANGED get_vars

\* data = self._get("/movie/popular", params={"page": page, ...})
FetchPage ==
    /\ UNCHANGED <<ld_vars, pl_vars>>
    /\ ex_pc = "fetch_page"
    /\ GetCall(PopularEndpoint(page))
    /\ pages_fetched' = Append(pages_fetched, page)
    /\ ex_pc' = "await_page"
    /\ UNCHANGED <<srv_total_pages, pages_to_fetch, page, movies_on_page,
                   total_pages, seen_ids, yielded, ex_error, detail_calls>>

\* The list call returned: movies_on_page and total_pages are read from it.
PageReturned ==
    /\ UNCHANGED <<ld_vars, pl_vars>>
    /\ ex_pc = "await_page"
    /\ get_state = "returned"
    /\ movies_on_page' = result.body.results
    /\ total_pages' = result.body.total_pages
    /\ ex_pc' = "items"
    /\ GetOver
    /\ UNCHANGED <<srv_total_pages, pages_to_fetch, page, seen_ids, yielded,
                   pages_fetched, ex_error, detail_calls>>

\* A page loop that takes a failed list call for an empty page.
PageRaisedIgnored ==
    /\ UNCHANGED <<ld_vars, pl_vars>>
    /\ ex_pc = "await_page"
    /\ get_state = "raised"
    /\ movies_on_page' = <<>>
    /\ ex_pc' = "items"
    /\ GetOver
    /\ UNCHANGED <<srv_total_pages, pages_to_fetch, page, total_pages, seen_ids,
                   yielded, pages_fetched, ex_error, detail_calls>>

\* The list call raised: nothing catches it, the stream ends with the error.
PageRaised ==
    /\ UNCHANGED <<ld_vars, pl_vars>>
    /\ ex_pc = "await_page"
    /\ get_state = "raised"
    /\ ex_pc' = "aborted"
    /\ ex_error' = [exc |-> result.exc, during |-> "popular"]
    /\ GetOver
    /\ UNCHANGED <<srv_total_pages, pages_to_fetch, page, movies_on_page,
                   total_pages, seen_ids, yielded, pages_fetched, detail_calls>>

\* if movie_id in seen_ids: continue
SkipDuplicate ==
    /\ UNCHANGED <<ld_vars, pl_vars>>
    /\ ex_pc = "items"
    /\ movies_on_page # <<>>
    /\ Head(movies_on_page) \in seen_ids
    /\ movies_on_page' = Tail(movies_on_page)
    /\ UNCHANGED <<srv_total_pages, ex_pc, pages_to_fetch, page, total_pages,
                   seen_ids, yielded, pages_fetched, ex_error, detail_calls>>
    /\ UNCHANGED get_vars

\* A stream that keeps no account of the identifiers it has seen.
IsAlwaysNew(movie_id, seen) == TRUE

\* Whether the stream asks for the detail of a list item with this identifier.
IsNew(movie_id, seen) == movie_id \notin seen

\* A stream that does not record the identifier it is about to fetch.
SeenForgotten(seen, movie_id) == seen

\* seen_ids.add(movie_id), before the detail call and whatever its outcome.
SeenAfter(seen, movie_id) == seen \cup {movie_id}

\* seen_ids.add(movie_id); detail = self.extract_movie_detail(movie_id)
FetchDetail ==
    /\ UNCHANGED <<ld_vars, pl_vars>>
    /\ ex_pc = "items"
    /\ movies_on_page # <<>>
    /\ IsNew(Head(movies_on_page), seen_ids)
    /\ movies_on_page' = Tail(movies_on_page)
    /\ seen_ids' = SeenAfter(seen_ids, Head(movies_on_page))
    /\ GetCall(DetailEndpoint(Head(movies_on_page)))
    /\ detail_calls' = [detail_calls EXCEPT ![Head(movies_on_page)] = @ + 1]
    /\ ex_pc' = "await_detail"
    /\ UNCHANGED <<srv_total_pages, pages_to_fetch, page, total_pages, yielded,
                   pages_fetched, ex_error>>

\* yield detail
DetailReturned ==
    /\ UNCHANGED <<ld_vars, pl_vars>>
    /\ ex_pc = "await_detail"
    /\ get_state = "returned"
    /\ yielded' = Append(yielded, result.body)
    /\ ex_pc' = "items"
    /\ GetOver
    /\ UNCHANGED <<srv_total_pages, pages_to_fetch, page, movies_on_page,
                   total_pages, seen_ids, pages_fetched, ex_error, detail_calls>>

\* except (ValueError, TMDbAPIError) as e
Caught(exc) == exc \in {"ValueError", "TMDbAPIError"}

\* The detail call raised: a caught error skips the item, any other ends the
\* stream.
DetailRaised ==
    /\ UNCHANGED <<ld_vars, pl_vars>>
    /\ ex_pc = "await_detail"
    /\ get_state = "raised"
    /\ IF Caught(result.exc)
       THEN /\ ex_pc' = "items"
            /\ ex_error' = ex_error
       ELSE /\ ex_pc' = "aborted"
            /\ ex_error' = [exc |-> result.exc, during |-> "detail"]
    /\ GetOver
    /\ UNCHANGED <<srv_total_pages, pages_to_fetch, page, movies_on_page,
                   total_pages, seen_ids, yielded, pages_fetched, detail_calls>>

\* A page loop that stops one page after the server's last page.
LastPageOffByOne(p, tp) == p > tp

\* if page >= total_pages: break
LastPage(p, tp) == p >= tp

\* A page loop that counts on without an upper end.
RangeUnbounded(p, pages) == FALSE

\* for page in range(1, pages_to_fetch + 1): page p was the last of the range.
RangeExhausted(p, pages) == p >= pages

\* The items of the page are used up: stop at the server's last page or at the
\* end of range(1, pages_to_fetch + 1), else go on to the next page.
PageEnd ==
    /\ UNCHANGED <<ld_vars, pl_vars>>
    /\ ex_pc = "items"
    /\ movies_on_page = <<>>
    /\ IF LastPage(page, total_pages) \/ RangeExhausted(page, pages_to_fetch)
       THEN ex_pc' = "done" /\ page' = page
       ELSE ex_pc' = "fetch_page" /\ page' = page + 1
    /\ UNCHANGED <<srv_total_pages, pages_to_fetch, movies_on_page, total_pages,
                   seen_ids, yielded, pages_fetched, ex_error, detail_calls>>
    /\ UNCHANGED get_vars

\* The answers the server gives in a whole extraction run: a success, a client
\* error, or one of two transient faults.
ExtractResponses(ep) ==
    {Http(200, NoHeader, b) : b \in Bodies(ep)}
    \cup {Http(404, NoHeader, NoBody), Http(500, NoHeader, NoBody), Timeout}

(***************************************************************************)
(* SpecExtract: one extraction run, every list and detail call against     *)
(* every behaviour of the server.                                          *)
(***************************************************************************)
NextExtract ==
    \/ ex_pc = "idle" /\ \E pages \in 0..(MaxPages + 1), config_pages \in 0..MaxPages,
                             tp \in 1..MaxPages :
          ExtractStart(pages, config_pages, tp)
    \/ FetchPage
    \/ get_state = "running" /\ UNCHANGED recent
          /\ \E resp \in ExtractResponses(endpoint) : GetAttempt(resp)
    \/ PageReturned
    \/ PageRaised
    \/ SkipDuplicate
    \/ FetchDetail
    \/ DetailReturned
    \/ DetailRaised
    \/ PageEnd

SpecExtract == Init /\ [][NextExtract]_vars

(***************************************************************************)
(* SpecStream: one extraction run followed step by step to its end, each   *)
(* attempt answered by a success, a client error or a server error.        *)
(***************************************************************************)
StreamResponses(ep) == ExtractResponses(ep) \ {Timeout}

NextStream ==
    \/ ex_pc = "idle" /\ \E pages \in 0..(MaxPages + 1), config_pages \in 0..MaxPages,
                             tp \in 1..MaxPages :
          ExtractStart(pages, config_pages, tp)
    \/ FetchPage
    \/ get_state = "running" /\ UNCHANGED recent
          /\ \E resp \in StreamResponses(endpoint) : GetAttempt(resp)
    \/ PageReturned
    \/ PageRaised
    \/ SkipDuplicate
    \/ FetchDetail
    \/ DetailReturned
    \/ DetailRaised
    \/ PageEnd

SpecStream == Init /\ [][NextStream]_vars

(***************************************************************************)
(* SnowflakeLoader.load_movies: one MERGE statement per record, in input   *)
(* order.                                                                  *)
(***************************************************************************)
Payloads == {"a", "b"}
\* The dicts handed to load_movies: with an "id" or without one.
Movies ==
    {[id |-> i, payload |-> p] : i \in 1..MaxId, p \in Payloads}
    \cup {[id |-> NoId, payload |-> "a"]}
MovieLists == UNION {[1..n -> Movies] : n \in 0..MaxMovies}
\* The batch_size of a call: one record per batch, or the longest list in one.
BatchSizes == {1, MaxMovies}

\* A row filter that keeps every movie.
UsableAlways(movie) == TRUE

\* if movie.get("id"): None (and 0) is skipped.
Usable(movie) == movie.id # NoId

\* json.dumps(movie): the dict as text, key after key.
JsonDumps(movie) == <<"id", movie.id, "payload", movie.payload>>
\* PARSE_JSON(%s): the text as a VARIANT.
ParseJson(text) == [id |-> text[2], payload |-> text[4]]

\* The source row of merge_sql for one movie of a call of loader l.
SourceRow(l, movie) ==
    [movie_id |-> movie.id, raw_data |-> ParseJson(JsonDumps(movie)),
     ingested_at |-> l.ingested_at, batch_id |-> l.batch_id]

\* A MERGE that also matches on the run: ON ... AND target.BATCH_ID = source.batch_id
MatchedWithinRun(t, src) ==
    {row \in DOMAIN t : row.movie_id = src.movie_id /\ row.batch_id = src.batch_id}

\* A MERGE whose ON clause holds for every row of the table.
MatchedAll(t, src) == DOMAIN t

\* ON target.MOVIE_ID = source.movie_id
Matched(t, src) == {row \in DOMAIN t : row.movie_id = src.movie_id}

\* A MERGE without its WHEN MATCHED clause: a matching row stays as it was.
InsertIfAbsent(t, src) ==
    IF Matched(t, src) = {} THEN t (+) SetToBag({src}) ELSE t

\* A plain INSERT in place of the MERGE.
PlainInsert(t, src) == t (+) SetToBag({src})

\* A MERGE whose WHEN MATCHED branch sets RAW_DATA alone: a matching row keeps
\* its INGESTED_AT and BATCH_ID.
MergeKeepsOrigin(t, src) ==
    LET hit == Matched(t, src)
        rest == [row \in DOMAIN t \ hit |-> t[row]]
        updated == {[row EXCEPT !.raw_data = src.raw_data] : row \in hit}
    IN  IF hit = {}
        THEN t (+) SetToBag({src})
        ELSE rest (+) SetToBag(updated)

\* merge_sql on table t: WHEN MATCHED every matching row is overwritten by the
\* source row, WHEN NOT MATCHED the source row is inserted.
Merge(t, src) ==
    LET hit == Matched(t, src)
        rest == [row \in DOMAIN t \ hit |-> t[row]]
        copies == BagCardinality([row \in hit |-> t[row]])
    IN  IF hit = {}
        THEN t (+) SetToBag({src})
        ELSE rest (+) [row \in {src} |-> copies]

\* The index of the next movie load_movies writes from position pos on: the
\* rows of a batch leave out the movies without a usable id.
NextUsable(movies, pos) ==
    LET left == {i \in pos..Len(movies) : Usable(movies[i])}
    IN  IF left = {} THEN 0 ELSE CHOOSE i \in left : \A j \in left : i <= j

\* A slice that takes one record more than the batch size, so that two
\* batches overlap.
BatchOneMore(n, batch_start, batch_size) ==
    [k \in 1..(Min(batch_start + batch_size + 1, n) - batch_start) |-> batch_start + k]

\* movies[batch_start: batch_start + batch_size], as the indices (from 1) of
\* the records of the slice; n is len(movies).
Batch(n, batch_start, batch_size) ==
    [k \in 1..(Min(batch_start + batch_size, n) - batch_start) |-> batch_start + k]

\* for batch_start in range(0, len(movies), batch_size): rows = [... for movie
\* in batch if movie.get("id")]; for row in rows: ... -- the indices of the
\* records load_movies writes, in the order it writes them, from the batch at
\* batch_start on.
RECURSIVE RowsFrom(_, _, _)
RowsFrom(movies, batch_start, batch_size) ==
    IF batch_start >= Len(movies)
    THEN <<>>
    ELSE SelectSeq(Batch(Len(movies), batch_start, batch_size),
                   LAMBDA i : Usable(movies[i]))
         \o RowsFrom(movies, batch_start + batch_size, batch_size)

\* The index of the record the call of loader l writes next, 0 when every row
\* of every batch has been written. l.rows is RowsFrom(movies, 0, batch_size)
\* of the call, worked out when it starts: the list does not change under it.
NextRow(l) ==
    IF l.total_loaded < Len(l.rows) THEN l.rows[l.total_loaded + 1] ELSE 0

NoLoadInProgress == \A r \in Runs : ld[r].pc # "loading"

\* self._execute(sql, ...) of loader r: cursor.execute is handed the statement.
Executed(r, stmt) == Append(stmt_log, [run |-> r, stmt |-> stmt])

\* load_movies without its early return.
EmptyInputNever(movies) == FALSE

\* if not movies: return 0
EmptyInput(movies) == movies = <<>>

\* Run r calls loader.load_movies(movies, batch_size).
LoadStart(r, movies, batch_size) ==
    /\ ld[r].pc = "new"
    /\ \A q \in Runs : q < r => ld[q].pc # "new"
    /\ IF EmptyInput(movies)
       THEN /\ ld' = [ld EXCEPT ![r].pc = "returned", ![r].movies = movies]
            /\ now' = now
       ELSE /\ ld' = [ld EXCEPT ![r].pc = "loading", ![r].movies = movies,
                                ![r].batch_size = batch_size, ![r].pos = 1,
                                ![r].total_loaded = 0, ![r].ingested_at = now,
                                ![r].rows = RowsFrom(movies, 0, batch_size)]
            /\ now' = now + 1
    /\ UNCHANGED <<table, snapshot, stmt_log, checks>>
    /\ UNCHANGED <<get_vars, ex_vars, pl_vars>>

\* self._execute(merge_sql, list(row)); total_loaded += 1
Upsert(r) ==
    /\ ld[r].pc = "loading"
    /\ LET i == NextRow(ld[r]) IN
       /\ i # 0
       /\ table' = Merge(table, SourceRow(ld[r], ld[r].movies[i]))
       /\ ld' = [ld EXCEPT ![r].pos = i + 1,
                           ![r].total_loaded = ld[r].total_loaded + 1]
    /\ stmt_log' = Executed(r, "merge")
    /\ UNCHANGED <<now, snapshot, checks>>
    /\ UNCHANGED <<get_vars, ex_vars, pl_vars>>

\* The statement raises (a storage fault): nothing is written by it and the
\* error leaves load_movies, whose locals are gone; the caller keeps its list.
UpsertFails(r) ==
    /\ ld[r].pc = "loading"
    /\ NextRow(ld[r]) # 0
    /\ ld' = [ld EXCEPT ![r].pc = "failed", ![r].pos = 0, ![r].batch_size = 0,
                        ![r].total_loaded = 0, ![r].rows = <<>>]
    /\ stmt_log' = Executed(r, "merge")
    /\ UNCHANGED <<table, now, snapshot, checks>>
    /\ UNCHANGED <<get_vars, ex_vars, pl_vars>>

\* return total_loaded
LoadReturn(r) ==
    /\ ld[r].pc = "loading"
    /\ NextRow(ld[r]) = 0
    /\ ld' = [ld EXCEPT ![r].pc = "returned", ![r].pos = 0, ![r].batch_size = 0,
                        ![r].rows = <<>>]
    /\ UNCHANGED <<table, now, snapshot, stmt_log, checks>>
    /\ UNCHANGED <<get_vars, ex_vars, pl_vars>>

(***************************************************************************)
(* SnowflakeLoader: the connection.                                        *)
(***************************************************************************)
\* connect(): self.conn = snowflake.connector.connect(...)
Connect(r) ==
    /\ ld[r].conn = "none"
    /\ ld' = [ld EXCEPT ![r].conn = "open"]
    /\ UNCHANGED <<table, now, snapshot, stmt_log, checks>>

\* A disconnect() that leaves the connection as it is.
NeverClosed(conn) == conn

\* disconnect(): if self.conn and not self.conn.is_closed(): self.conn.close()
Disconnected(conn) == IF conn = "open" THEN "closed" ELSE conn

Disconnect(r) ==
    /\ ld' = [ld EXCEPT ![r].conn = Disconnected(ld[r].conn)]
    /\ UNCHANGED <<table, now, snapshot, stmt_log, checks>>

\* ensure_tables_exist(): two CREATE TABLE IF NOT EXISTS statements, which
\* leave the rows of an existing table as they are.
EnsureTablesExist(r) ==
    /\ stmt_log' = stmt_log \o <<[run |-> r, stmt |-> "create_raw_movies"],
                                 [run |-> r, stmt |-> "create_raw_genres"]>>
    /\ UNCHANGED <<table, now, ld, snapshot, checks>>

\* ensure_tables_exist() when its n-th statement raises.
EnsureTablesFails(r, n) ==
    /\ stmt_log' = stmt_log \o
          SubSeq(<<[run |-> r, stmt |-> "create_raw_movies"],
                   [run |-> r, stmt |-> "create_raw_genres"]>>, 1, n)
    /\ UNCHANGED <<table, now, ld, snapshot, checks>>

\* get_row_count("BRONZE.RAW_MOVIES"): SELECT COUNT(*)
RowCount(t) == BagCardinality(t)

\* A validation that raises when the landing table is empty.
RaisesOnEmpty(movies_count) == movies_count = 0

\* if movies_count == 0: logger.error(...) else: logger.info(...): neither
\* branch raises.
QualityRaises(movies_count) == FALSE

\* run_post_load_checks(): the two counts, and the verdict it logs.
RunPostLoadChecks(r) ==
    /\ stmt_log' = stmt_log \o <<[run |-> r, stmt |-> "count_raw_movies"],
                                 [run |-> r, stmt |-> "count_raw_genres"]>>
    /\ checks' = IF RowCount(table) = 0 THEN "failed" ELSE "passed"
    /\ UNCHANGED <<table, now, ld, snapshot>>

\* run_post_load_checks() when its n-th count raises: no verdict is logged.
RowCountFails(r, n) ==
    /\ stmt_log' = stmt_log \o
          SubSeq(<<[run |-> r, stmt |-> "count_raw_movies"],
                   [run |-> r, stmt |-> "count_raw_genres"]>>, 1, n)
    /\ UNCHANGED <<table, now, ld, snapshot, checks>>

(***************************************************************************)
(* SnowflakeLoader.load_genres: one INSERT of the whole list.              *)
(***************************************************************************)
\* json.dumps(genres): the list as text, entry after entry.
JsonDumpsList(genre_list) ==
    [i \in 1..Len(genre_list) |-> <<"id", genre_list[i].id, "name", genre_list[i].name>>]
\* PARSE_JSON(%s) of that text: a VARIANT array.
ParseJsonList(text) ==
    [i \in 1..Len(text) |-> [id |-> text[i][2], name |-> text[i][4]]]

\* An insert that writes one row per entry of the list.
RowPerGenre(l, genre_list, at) ==
    {[raw_data |-> <<ParseJsonList(JsonDumpsList(genre_list))[i]>>,
      ingested_at |-> at, batch_id |-> l.batch_id] : i \in 1..Len(genre_list)}

\* The rows insert_sql selects for loader l: one, holding the whole list.
SnapshotRows(l, genre_list, at) ==
    {[raw_data |-> ParseJsonList(JsonDumpsList(genre_list)),
      ingested_at |-> at, batch_id |-> l.batch_id]}

\* A statement that replaces the content of the table by the rows.
ReplaceRows(t, rows) == SetToBag(rows)

\* INSERT INTO BRONZE.RAW_GENRES ... SELECT: the rows are added to the table.
InsertRows(t, rows) == t (+) SetToBag(rows)

\* loader.load_genres(genre_list) of run r, to its return.
LoadGenres(r, genre_list) ==
    /\ ld[r].genres_pc = "new"
    /\ IF genre_list = <<>>
       THEN /\ ld' = [ld EXCEPT ![r].genres_pc = "returned",
                                ![r].genres = genre_list, ![r].genres_loaded = 0]
            /\ UNCHANGED <<snapshot, stmt_log, now>>
       ELSE /\ snapshot' = InsertRows(snapshot, SnapshotRows(ld[r], genre_list, now))
            /\ stmt_log' = Executed(r, "insert_genres")
            /\ now' = now + 1
            /\ ld' = [ld EXCEPT ![r].genres_pc = "returned",
                                ![r].genres = genre_list, ![r].genres_loaded = 1]
    /\ UNCHANGED <<table, checks>>

\* loader.load_genres(genre_list) of run r when the INSERT raises.
LoadGenresFails(r, genre_list) ==
    /\ ld[r].genres_pc = "new"
    /\ genre_list # <<>>
    /\ stmt_log' = Executed(r, "insert_genres")
    /\ now' = now + 1
    /\ ld' = [ld EXCEPT ![r].genres_pc = "failed", ![r].genres = genre_list]
    /\ UNCHANGED <<table, snapshot, checks>>

(***************************************************************************)
(* SpecGenres: the runs connect, load a genre list and disconnect, in any  *)
(* interleaving.                                                           *)
(***************************************************************************)
NextGenres ==
    \/ \E r \in Runs : Connect(r) /\ UNCHANGED <<get_vars, ex_vars, pl_vars>>
    \/ \E r \in Runs :
          /\ ld[r].conn = "open"
          /\ \E genre_list \in GenreLists : LoadGenres(r, genre_list)
          /\ UNCHANGED <<get_vars, ex_vars, pl_vars>>
    \/ \E r \in Runs :
          /\ ld[r].conn = "open"
          /\ \E genre_list \in GenreLists : LoadGenresFails(r, genre_list)
          /\ UNCHANGED <<get_vars, ex_vars, pl_vars>>
    \/ \E r \in Runs :
          /\ ld[r].genres_pc \in {"returned", "failed"}
          /\ ld[r].conn = "open"
          /\ Disconnect(r)
          /\ UNCHANGED <<get_vars, ex_vars, pl_vars>>

SpecGenres == Init /\ [][NextGenres]_vars

(***************************************************************************)
(* SpecLoad: the runs connect and load one after the other into a table    *)
(* that starts empty.                                                      *)
(***************************************************************************)
NextLoad ==
    \/ \E r \in Runs :
          /\ \A q \in Runs : q < r => ld[q].pc \in {"returned", "failed"}
          /\ Connect(r)
          /\ UNCHANGED <<get_vars, ex_vars, pl_vars>>
    \/ \E r \in Runs :
          /\ NoLoadInProgress
          /\ ld[r].pc = "new"
          /\ ld[r].conn = "open"
          /\ \E movies \in MovieLists, batch_size \in BatchSizes :
                LoadStart(r, movies, batch_size)
    \/ \E r \in Runs : Upsert(r)
    \/ \E r \in Runs : UpsertFails(r)
    \/ \E r \in Runs : LoadReturn(r)

SpecLoad == Init /\ [][NextLoad]_vars

(***************************************************************************)
(* SpecBatch: one load_movies call into the empty table, for every list of *)
(* up to MaxBatch records and every batch_size of 1 to MaxBatch.           *)
(***************************************************************************)
BatchLists == UNION {[1..n -> Movies] : n \in 0..MaxBatch}

NextBatch ==
    \/ Connect(1) /\ UNCHANGED <<get_vars, ex_vars, pl_vars>>
    \/ /\ ld[1].pc = "new"
       /\ ld[1].conn = "open"
       /\ \E movies \in BatchLists, batch_size \in 1..MaxBatch :
             LoadStart(1, movies, batch_size)
    \/ Upsert(1)
    \/ LoadReturn(1)

SpecBatch == Init /\ [][NextBatch]_vars

(***************************************************************************)
(* run_pipeline: extraction inside "with TMDbExtractor", then (unless      *)
(* dry_run) the loading block inside "with SnowflakeLoader".  The run's    *)
(* loader is loader 1; its movies list is the records the stream yielded.  *)
(***************************************************************************)
\* cfg.tmdb.pages_to_fetch of the run's configuration.
ConfigPagesToFetch == MaxPages

\* The genre lists the server of a pipeline run answers with: none, or one
\* genre.
PipelineGenreLists == {<<>>, <<[id |-> 28, name |-> "Action"]>>}

\* The answers the server gives in a pipeline run: a success, a client error
\* or a server error.
PipelineResponses(ep) ==
    {Http(200, NoHeader, b) :
        b \in {x \in Bodies(ep) : x.path = "genres" => x.genres \in PipelineGenreLists}}
    \cup {Http(404, NoHeader, NoBody), Http(500, NoHeader, NoBody)}

\* The dict of a yielded detail record, as load_movies receives it.
AsMovie(detail) == [id |-> detail.id, payload |-> "a"]
AsMovies(details) == [i \in 1..Len(details) |-> AsMovie(details[i])]

\* run_pipeline(pages, dry_run) up to its first request: the configuration is
\* read, stats is initialised, the extractor (with its session) is built and
\* extract_genre_list() calls _get.
PipelineStart(pages, dry) ==
    /\ pl_pc = "idle"
    /\ pl_pages' = PagesToFetch(pages, ConfigPagesToFetch)
    /\ dry_run' = dry
    /\ stats' = NewStats
    /\ genres' = <<>>
    /\ session' = "open"
    /\ GetCall(GenreEndpoint)
    /\ pl_pc' = "genres"
    /\ UNCHANGED <<pl_error, exit_code>>
    /\ UNCHANGED <<ex_vars, ld_vars>>

\* genres = extractor.extract_genre_list(); stats["genres_extracted"] = len(genres)
GenresReturned ==
    /\ pl_pc = "genres"
    /\ get_state = "returned"
    /\ genres' = result.body.genres
    /\ stats' = [stats EXCEPT !.genres_extracted = Len(result.body.genres)]
    /\ GetOver
    /\ pl_pc' = "movies"
    /\ UNCHANGED <<dry_run, pl_pages, session, pl_error, exit_code>>
    /\ UNCHANGED <<ex_vars, ld_vars>>

\* An extractor whose __exit__ leaves the session as it is.
ExtractorCloseSkipped(s) == s

\* TMDbExtractor.__exit__ -> close(): self.session.close().
ExtractorClose(s) == "closed"

\* extract_genre_list() raises: the exception leaves the with block, whose
\* __exit__ closes the session, and then run_pipeline.
GenresRaised ==
    /\ pl_pc = "genres"
    /\ get_state = "raised"
    /\ pl_error' = [exc |-> result.exc, during |-> "genres"]
    /\ GetOver
    /\ session' = ExtractorClose(session)
    /\ pl_pc' = "failed"
    /\ UNCHANGED <<dry_run, pl_pages, stats, genres, exit_code>>
    /\ UNCHANGED <<ex_vars, ld_vars>>

\* for movie in extractor.extract_movies_with_details(pages=pages_to_fetch)
StreamStart(tp) ==
    /\ pl_pc = "movies"
    /\ ExtractStart(pl_pages, ConfigPagesToFetch, tp)

\* A run_pipeline that goes on to the loading block whatever dry_run is.
NeverSkipsLoad(dry) == FALSE

\* if dry_run: ... return stats
SkipsLoad(dry) == dry

\* The stream is exhausted: stats["movies_extracted"] = len(movies),
\* stats["pages_fetched"] = pages_to_fetch, the with block closes the session;
\* if dry_run: return stats.
ExtractionDone ==
    /\ pl_pc = "movies"
    /\ ex_pc = "done"
    /\ stats' = [stats EXCEPT !.movies_extracted = Len(yielded),
                              !.pages_fetched = pl_pages]
    /\ session' = ExtractorClose(session)
    /\ pl_pc' = IF SkipsLoad(dry_run) THEN "done" ELSE "connect"
    /\ UNCHANGED <<dry_run, pl_pages, genres, pl_error, exit_code>>
    /\ UNCHANGED <<get_vars, ex_vars, ld_vars>>

\* A run_pipeline that logs the exception of the stream and goes on to load
\* what was extracted before it.
ExtractionAbortedLoads ==
    /\ pl_pc = "movies"
    /\ ex_pc = "aborted"
    /\ pl_error' = ex_error
    /\ session' = ExtractorClose(session)
    /\ pl_pc' = "connect"
    /\ UNCHANGED <<dry_run, pl_pages, stats, genres, exit_code>>
    /\ UNCHANGED <<get_vars, ex_vars, ld_vars>>

\* The stream raised: the exception leaves the with block and run_pipeline.
ExtractionAborted ==
    /\ pl_pc = "movies"
    /\ ex_pc = "aborted"
    /\ pl_error' = ex_error
    /\ session' = ExtractorClose(session)
    /\ pl_pc' = "failed"
    /\ UNCHANGED <<dry_run, pl_pages, stats, genres, exit_code>>
    /\ UNCHANGED <<get_vars, ex_vars, ld_vars>>

StorageError(step) == [exc |-> "DatabaseError", during |-> step]

\* A run_pipeline that loads the records before the genre snapshot.
MoviesBeforeGenres(step) ==
    CASE step = "connect"              -> "ensure_tables_exist"
      [] step = "ensure_tables_exist"  -> "load_movies"
      [] step = "load_movies"          -> "load_genres"
      [] step = "load_genres"          -> "run_post_load_checks"
      [] step = "run_post_load_checks" -> "exit"

\* The statements of the with SnowflakeLoader block in the order they are
\* written: __enter__, ensure_tables_exist(), load_genres(genres),
\* load_movies(movies, ...), run_post_load_checks(), __exit__.
StepAfter(step) ==
    CASE step = "connect"              -> "ensure_tables_exist"
      [] step = "ensure_tables_exist"  -> "load_genres"
      [] step = "load_genres"          -> "load_movies"
      [] step = "load_movies"          -> "run_post_load_checks"
      [] step = "run_post_load_checks" -> "exit"

\* with SnowflakeLoader(cfg.snowflake) as loader: __enter__ connects.
LoaderEnter ==
    /\ pl_pc = "connect"
    /\ Connect(1)
    /\ pl_pc' = StepAfter("connect")
    /\ UNCHANGED <<dry_run, pl_pages, stats, genres, session, pl_error, exit_code>>
    /\ UNCHANGED <<get_vars, ex_vars>>

\* connect() raises SnowflakeConnectionError: no connection, no __exit__.
LoaderEnterFails ==
    /\ pl_pc = "connect"
    /\ pl_error' = [exc |-> "SnowflakeConnectionError", during |-> "connect"]
    /\ pl_pc' = "failed"
    /\ UNCHANGED <<dry_run, pl_pages, stats, genres, session, exit_code>>
    /\ UNCHANGED <<get_vars, ex_vars, ld_vars>>

\* loader.ensure_tables_exist()
StepEnsureTables ==
    /\ pl_pc = "ensure_tables_exist"
    /\ EnsureTablesExist(1)
    /\ pl_pc' = StepAfter("ensure_tables_exist")
    /\ UNCHANGED <<dry_run, pl_pages, stats, genres, session, pl_error, exit_code>>
    /\ UNCHANGED <<get_vars, ex_vars>>

StepEnsureTablesFails(n) ==
    /\ pl_pc = "ensure_tables_exist"
    /\ EnsureTablesFails(1, n)
    /\ pl_error' = StorageError("ensure_tables_exist")
    /\ pl_pc' = "exit"
    /\ UNCHANGED <<dry_run, pl_pages, stats, genres, session, exit_code>>
    /\ UNCHANGED <<get_vars, ex_vars>>

\* genres_loaded = loader.load_genres(genres); stats["genres_loaded"] = genres_loaded
StepLoadGenres ==
    /\ pl_pc = "load_genres"
    /\ LoadGenres(1, genres)
    /\ stats' = [stats EXCEPT !.genres_loaded = ld'[1].genres_loaded]
    /\ pl_pc' = StepAfter("load_genres")
    /\ UNCHANGED <<dry_run, pl_pages, genres, session, pl_error, exit_code>>
    /\ UNCHANGED <<get_vars, ex_vars>>

StepLoadGenresFails ==
    /\ pl_pc = "load_genres"
    /\ LoadGenresFails(1, genres)
    /\ pl_error' = StorageError("load_genres")
    /\ pl_pc' = "exit"
    /\ UNCHANGED <<dry_run, pl_pages, stats, genres, session, exit_code>>
    /\ UNCHANGED <<get_vars, ex_vars>>

\* loader.load_movies(movies, batch_size=cfg.batch_size) is called.
StepLoadMovies(batch_size) ==
    /\ pl_pc = "load_movies"
    /\ LoadStart(1, AsMovies(yielded), batch_size)

\* movies_loaded = <the value returned>; stats["movies_loaded"] = movies_loaded
MoviesLoaded ==
    /\ pl_pc = "load_movies"
    /\ ld[1].pc = "returned"
    /\ stats' = [stats EXCEPT !.movies_loaded = ld[1].total_loaded]
    /\ pl_pc' = StepAfter("load_movies")
    /\ UNCHANGED <<dry_run, pl_pages, genres, session, pl_error, exit_code>>
    /\ UNCHANGED <<get_vars, ex_vars, ld_vars>>

\* load_movies raised.
MoviesLoadRaised ==
    /\ pl_pc = "load_movies"
    /\ ld[1].pc = "failed"
    /\ pl_error' = StorageError("load_movies")
    /\ pl_pc' = "exit"
    /\ UNCHANGED <<dry_run, pl_pages, stats, genres, session, exit_code>>
    /\ UNCHANGED <<get_vars, ex_vars, ld_vars>>

\* loader.run_post_load_checks(), the last statement of the block.
StepChecks ==
    /\ pl_pc = "run_post_load_checks"
    /\ RunPostLoadChecks(1)
    /\ pl_error' = IF QualityRaises(RowCount(table))
                   THEN [exc |-> "Exception", during |-> "run_post_load_checks"]
                   ELSE NoError
    /\ pl_pc' = StepAfter("run_post_load_checks")
    /\ UNCHANGED <<dry_run, pl_pages, stats, genres, session, exit_code>>
    /\ UNCHANGED <<get_vars, ex_vars>>

StepChecksFails(n) ==
    /\ pl_pc = "run_post_load_checks"
    /\ RowCountFails(1, n)
    /\ pl_error' = StorageError("run_post_load_checks")
    /\ pl_pc' = "exit"
    /\ UNCHANGED <<dry_run, pl_pages, stats, genres, session, exit_code>>
    /\ UNCHANGED <<get_vars, ex_vars>>

\* __exit__ returns False: an exception raised in the block propagates.
Propagates(error) == error # NoError

\* The block is left: __exit__ disconnects; then the exception propagates out
\* of run_pipeline, or run_pipeline goes on to its summary and returns stats.
LoaderExit ==
    /\ pl_pc = "exit"
    /\ Disconnect(1)
    /\ pl_pc' = IF Propagates(pl_error) THEN "failed" ELSE "done"
    /\ UNCHANGED <<dry_run, pl_pages, stats, genres, session, pl_error, exit_code>>
    /\ UNCHANGED <<get_vars, ex_vars>>

(***************************************************************************)
(* SpecPipeline: one run of run_pipeline.                                  *)
(***************************************************************************)
NextPipeline ==
    \/ pl_pc = "idle" /\ \E pages \in 0..(MaxPages + 1), dry \in BOOLEAN :
          PipelineStart(pages, dry)
    \/ get_state = "running" /\ UNCHANGED recent
          /\ \E resp \in PipelineResponses(endpoint) : GetAttempt(resp)
    \/ GenresReturned \/ GenresRaised
    \/ \E tp \in 1..MaxPages : StreamStart(tp)
    \/ FetchPage \/ PageReturned \/ PageRaised \/ SkipDuplicate \/ FetchDetail
    \/ DetailReturned \/ DetailRaised \/ PageEnd
    \/ ExtractionDone \/ ExtractionAborted
    \/ LoaderEnter \/ LoaderEnterFails
    \/ StepEnsureTables
    \/ \E n \in 1..2 : StepEnsureTablesFails(n)
    \/ StepLoadGenres \/ StepLoadGenresFails
    \/ \E batch_size \in BatchSizes : StepLoadMovies(batch_size)
    \/ Upsert(1) \/ UpsertFails(1) \/ LoadReturn(1)
    \/ MoviesLoaded \/ MoviesLoadRaised
    \/ StepChecks
    \/ \E n \in 1..2 : StepChecksFails(n)
    \/ LoaderExit

SpecPipeline == Init /\ [][NextPipeline]_vars

(***************************************************************************)
(* main: run_pipeline inside its try, and the exit code.                   *)
(***************************************************************************)
\* The statements of run_pipeline inside "with TMDbExtractor", and inside
\* "with SnowflakeLoader" after __enter__.
ExtractionBlock == {"genres", "movies"}
LoadingBlock ==
    {"ensure_tables_exist", "load_genres", "load_movies", "run_post_load_checks", "exit"}

\* Ctrl+C while run_pipeline runs: KeyboardInterrupt is raised at the statement
\* being executed.  No handler of extract.py, load.py or the retry decorator
\* catches it; the with block it is in runs its __exit__ and it leaves
\* run_pipeline.
Interrupt ==
    /\ pl_pc \in ExtractionBlock \cup LoadingBlock \cup {"connect"}
    /\ pl_error' = [exc |-> "KeyboardInterrupt", during |-> pl_pc]
    /\ pl_pc' = "failed"
    /\ session' = IF pl_pc \in ExtractionBlock THEN ExtractorClose(session) ELSE session
    /\ GetOver
    /\ ex_pc' = IF ex_pc \in {"idle", "done"} THEN ex_pc ELSE "aborted"
    /\ ld' = IF pl_pc \in LoadingBlock
             THEN [ld EXCEPT ![1].conn = Disconnected(ld[1].conn),
                             ![1].pc = IF @ = "loading" THEN "failed" ELSE @]
             ELSE ld
    /\ UNCHANGED <<dry_run, pl_pages, stats, genres, exit_code>>
    /\ UNCHANGED <<srv_total_pages, pages_to_fetch, page, movies_on_page, total_pages,
                   seen_ids, yielded, pages_fetched, ex_error, detail_calls>>
    /\ UNCHANGED <<table, now, snapshot, stmt_log, checks>>

\* return 0 after run_pipeline returned; except KeyboardInterrupt: return 0;
\* except Exception: return 1
ExitCode(outcome, error) ==
    IF outcome = "done" THEN 0
    ELSE IF error.exc = "KeyboardInterrupt" THEN 0
    ELSE 1

\* load_config() raises EnvironmentError: return 1, run_pipeline is not called.
MainConfigError ==
    /\ pl_pc = "idle"
    /\ exit_code = <<>>
    /\ exit_code' = <<1>>
    /\ UNCHANGED <<pl_pc, dry_run, pl_pages, stats, genres, session, pl_error>>
    /\ UNCHANGED <<get_vars, ex_vars, ld_vars>>

\* run_pipeline has returned or raised: main returns its exit code.
MainReturns ==
    /\ pl_pc \in {"done", "failed"}
    /\ exit_code = <<>>
    /\ exit_code' = <<ExitCode(pl_pc, pl_error)>>
    /\ UNCHANGED <<pl_pc, dry_run, pl_pages, stats, genres, session, pl_error>>
    /\ UNCHANGED <<get_vars, ex_vars, ld_vars>>

\* The answers the server gives in a run started by main: a success or a
\* client error.
MainResponses(ep) ==
    {resp \in PipelineResponses(ep) : resp.status \in {200, 404}}

(***************************************************************************)
(* SpecMain: one run of main, which the user may interrupt at any point.   *)
(***************************************************************************)
NextMain ==
    \/ MainConfigError
    \/ pl_pc = "idle" /\ exit_code = <<>>
          /\ \E pages \in 0..1, dry \in BOOLEAN : PipelineStart(pages, dry)
    \/ get_state = "running" /\ UNCHANGED recent
          /\ \E resp \in MainResponses(endpoint) : GetAttempt(resp)
    \/ GenresReturned \/ GenresRaised
    \/ \E tp \in 1..MaxPages : StreamStart(tp)
    \/ FetchPage \/ PageReturned \/ PageRaised \/ SkipDuplicate \/ FetchDetail
    \/ DetailReturned \/ DetailRaised \/ PageEnd
    \/ ExtractionDone \/ ExtractionAborted
    \/ LoaderEnter \/ LoaderEnterFails
    \/ StepEnsureTables
    \/ \E n \in 1..2 : StepEnsureTablesFails(n)
    \/ StepLoadGenres \/ StepLoadGenresFails
    \/ \E batch_size \in BatchSizes : StepLoadMovies(batch_size)
    \/ Upsert(1) \/ UpsertFails(1) \/ LoadReturn(1)
    \/ MoviesLoaded \/ MoviesLoadRaised
    \/ StepChecks
    \/ \E n \in 1..2 : StepChecksFails(n)
    \/ LoaderExit
    \/ Interrupt
    \/ MainReturns

SpecMain == Init /\ [][NextMain]_vars

(***************************************************************************)
(* SpecFrame: the loaders of two runs, one after the other, each connecting,*)
(* loading a genre list and then a list of records, into the same tables,  *)
(* without storage faults.                                                 *)
(***************************************************************************)
\* The genre lists that make load_genres write.
FrameGenreLists == {genre_list \in PipelineGenreLists : genre_list # <<>>}

NextFrame ==
    \/ \E r \in Runs :
          /\ \A q \in Runs : q < r => ld[q].pc \in {"returned", "failed"}
          /\ Connect(r)
          /\ UNCHANGED <<get_vars, ex_vars, pl_vars>>
    \/ \E r \in Runs :
          /\ ld[r].conn = "open"
          /\ \E genre_list \in FrameGenreLists : LoadGenres(r, genre_list)
          /\ UNCHANGED <<get_vars, ex_vars, pl_vars>>
    \/ \E r \in Runs :
          /\ ld[r].genres_pc = "returned"
          /\ ld[r].pc = "new"
          /\ \E movies \in MovieLists, batch_size \in BatchSizes :
                LoadStart(r, movies, batch_size)
    \/ \E r \in Runs : Upsert(r)
    \/ \E r \in Runs : LoadReturn(r)

SpecFrame == Init /\ [][NextFrame]_vars

(***************************************************************************)
(* SpecConcurrent: the loaders of two runs load at the same time; each     *)
(* MERGE is one auto-committed statement, and the statements of the two    *)
(* calls reach the table in any interleaving. The records of a run all     *)
(* carry an identifier and the run's own payload, so that a row tells      *)
(* which run wrote its data.                                               *)
(***************************************************************************)
ConcurrentMovies(r) ==
    {movie \in Movies : Usable(movie) /\ movie.payload = (IF r = 1 THEN "a" ELSE "b")}
ConcurrentLists(r) == UNION {[1..n -> ConcurrentMovies(r)] : n \in 0..MaxMovies}

NextConcurrent ==
    \/ \E r \in Runs : Connect(r) /\ UNCHANGED <<get_vars, ex_vars, pl_vars>>
    \/ \E r \in Runs :
          /\ ld[r].pc = "new"
          /\ ld[r].conn = "open"
          /\ \E movies \in ConcurrentLists(r), batch_size \in BatchSizes :
                LoadStart(r, movies, batch_size)
    \/ \E r \in Runs : Upsert(r)
    \/ \E r \in Runs : LoadReturn(r)

SpecConcurrent == Init /\ [][NextConcurrent]_vars

(***************************************************************************)
(* SpecGet: stand-alone _get calls against every behaviour of the server.  *)
(***************************************************************************)
StandaloneCall(ep) == GetCall(ep) /\ UNCHANGED <<ex_vars, ld_vars, pl_vars>>
StandaloneDone == GetDone /\ UNCHANGED <<ex_vars, ld_vars, pl_vars>>

NextGet ==
    \/ \E movie_id \in 1..MaxId : StandaloneCall(DetailEndpoint(movie_id))
    \/ get_state = "running" /\ UNCHANGED recent
          /\ \E resp \in Responses(endpoint) : GetAttempt(resp)
    \/ StandaloneDone

SpecGet == Init /\ [][NextGet]_vars

(***************************************************************************)
(* SpecRate: the requests of one extractor on the clock. recent holds the  *)
(* age in cs of every request issued within the last rate-limit window,    *)
(* oldest first; the caller takes no time between two calls.               *)
(***************************************************************************)
\* The window after a request issued gap cs after the one before it.
RecentAfter(ages, gap) ==
    Append(SelectSeq([i \in 1..Len(ages) |-> ages[i] + gap],
                     LAMBDA age : age <= RATE_LIMIT_WINDOW_SECONDS * Second),
           0)

\* session.get(...) of one attempt, on the clock.
TimedAttempt(resp) ==
    /\ GetAttempt(resp)
    /\ recent' = RecentAfter(recent, hist'[Len(hist')].gap)

\* The answers that let requests follow each other most closely: a success,
\* after which the next call starts at once, and a server error, retried
\* after the backoff alone.
RateResponses(ep) ==
    {Http(200, NoHeader, b) : b \in Bodies(ep)} \cup {Http(500, NoHeader, NoBody)}

NextRate ==
    \/ StandaloneCall(DetailEndpoint(1))
    \/ get_state = "running" /\ \E resp \in RateResponses(endpoint) : TimedAttempt(resp)
    \/ StandaloneDone

SpecRate == Init /\ [][NextRate]_vars

(***************************************************************************)
(* Properties.                                                             *)
(***************************************************************************)
Range(seq) == {seq[i] : i \in 1..Len(seq)}

\* How the claims read one answer of the server.
IsSuccess(resp) == resp.kind = "http" /\ resp.status < 400
IsServerError(resp) == resp.kind = "http" /\ resp.status >= 500
IsClientError(resp) ==
    resp.kind = "http" /\ resp.status >= 400 /\ resp.status <= 499 /\ resp.status # 429
IsRateLimited(resp) == resp.kind = "http" /\ resp.status = 429
\* A 429 whose Retry-After header is a number of seconds.
HasRetryAfterSeconds(resp) == IsRateLimited(resp) /\ resp.retry_after.form = "seconds"
\* A fault the retry policy treats as transient: a 429 the body could wait on,
\* a 5xx, a timeout, a connection failure.
IsRetryableFault(resp) ==
    \/ resp.kind \in {"timeout", "connection_error"}
    \/ IsServerError(resp)
    \/ IsRateLimited(resp) /\ resp.retry_after.form = "absent"
    \/ HasRetryAfterSeconds(resp) /\ resp.retry_after.seconds >= 0

\* C1: in one run of extract_movies_with_details, whatever the list pages
\* repeat, no two yielded records carry the same identifier.
C1_NoDuplicateYield ==
    \A i, j \in 1..Len(yielded) : i # j => yielded[i].id # yielded[j].id

\* C1 witness: on page 2 the list repeats an identifier whose record was
\* yielded before.
C1_Witness ==
    /\ ex_pc = "items"
    /\ page = 2
    /\ movies_on_page # <<>>
    /\ Head(movies_on_page) \in {yielded[i].id : i \in 1..Len(yielded)}
    /\ Len(yielded) = 2

\* C2: a failed detail fetch (a client fault, or the retries used up) never
\* ends the stream: the item is skipped and the stream goes on.
C2_DetailFailureNeverAborts ==
    ~(ex_pc = "aborted" /\ ex_error.during = "detail")

\* C3: after at most 4 failures that are 5xx answers or timeouts, the call is
\* still going to make another attempt, and when that attempt succeeds the call
\* returns the body of the successful answer.
C3_RetryThenRecover ==
    get_state # "idle" =>
        LET n == Len(hist)
            transient(i) == IsServerError(hist[i].resp) \/ hist[i].resp.kind = "timeout"
        IN  /\ (n <= 4 /\ \A i \in 1..n : transient(i)) => get_state = "running"
            /\ (n >= 1 /\ n <= 5 /\ IsSuccess(hist[n].resp)
                    /\ \A i \in 1..(n - 1) : transient(i))
               => (get_state = "returned" /\ result = Return(hist[n].resp.body))

\* C3 witness: a call that returned on its 5th attempt, after timeouts and
\* 5xx answers.
C3_Witness ==
    /\ get_state = "returned"
    /\ Len(hist) = 5
    /\ hist[1].resp.kind = "timeout"
    /\ IsServerError(hist[2].resp)
    /\ IsServerError(hist[3].resp)
    /\ hist[4].resp.kind = "timeout"
    /\ result = Return([path |-> "detail", id |-> endpoint.arg])

\* C4: a 4xx answer other than 429 is the last attempt of its call: the call
\* raises the client fault at once and issues no further request (a single
\* request when the 4xx is the first answer).
C4_ClientErrorNotRetried ==
    \A i \in 1..Len(hist) :
        IsClientError(hist[i].resp) =>
            /\ i = Len(hist)
            /\ get_state = "raised"
            /\ result = Raise("ValueError", "none")

\* C4 witness: a call ended by a 404 on its first attempt.
C4_Witness ==
    /\ get_state = "raised"
    /\ Len(hist) = 1
    /\ hist[1].resp.status = 404

\* C5: a call never issues more than 5 HTTP attempts, and when all 5 fail with
\* a retryable fault the call has failed to its caller.
C5_AtMostFiveAttempts ==
    /\ Len(hist) <= 5
    /\ (Len(hist) = 5 /\ \A i \in 1..5 : IsRetryableFault(hist[i].resp))
       => (get_state = "raised" /\ result.tag = "raise")

\* C5 witness: a call that failed after 5 retryable faults of every kind.
C5_Witness ==
    /\ get_state = "raised"
    /\ Len(hist) = 5
    /\ IsRateLimited(hist[1].resp)
    /\ IsServerError(hist[2].resp)
    /\ hist[3].resp.kind = "timeout"
    /\ hist[4].resp.kind = "connection_error"
    /\ IsServerError(hist[5].resp)

\* The error the body of _get raises on a retryable fault.
OwnError(resp) ==
    CASE resp.kind = "timeout"          -> "Timeout"
      [] resp.kind = "connection_error" -> "ConnectionError"
      [] OTHER                          -> "TMDbAPIError"

\* C6: when the attempts are used up, the error the caller receives is the
\* last attempt's own error (TMDbAPIError, timeout or connection error).
C6_LastErrorSurfaces ==
    (get_state = "raised" /\ Len(hist) = 5 /\ IsRetryableFault(hist[5].resp))
    => result.exc = OwnError(hist[5].resp)

\* C7: after a 429 with Retry-After: n, at least n seconds are slept before
\* the next attempt of the call.
C7_RetryAfterHonoured ==
    \A i \in 1..(Len(hist) - 1) :
        HasRetryAfterSeconds(hist[i].resp)
        => hist[i + 1].gap >= hist[i].resp.retry_after.seconds * Second

\* C7 witness: a 429 with the largest Retry-After on the first attempt, and a
\* second attempt made.
C7_Witness ==
    /\ Len(hist) >= 2
    /\ HasRetryAfterSeconds(hist[1].resp)
    /\ hist[1].resp.retry_after.seconds = MaxRetryAfter

RowsOf(t, movie_id) ==
    BagCardinality([row \in {x \in DOMAIN t : x.movie_id = movie_id} |-> t[row]])

\* A list of records with usable, pairwise distinct identifiers.
DistinctUsable(movies) ==
    /\ \A i \in 1..Len(movies) : Usable(movies[i])
    /\ \A i, j \in 1..Len(movies) : i # j => movies[i].id # movies[j].id

\* C9: two full runs that load the same N records (distinct usable ids) into
\* an empty table leave exactly N rows, one per identifier.
C9_TwiceIsOnce ==
    (/\ ld[1].pc = "returned" /\ ld[2].pc = "returned"
     /\ DistinctUsable(ld[1].movies)
     /\ Range(ld[1].movies) = Range(ld[2].movies)
     /\ Len(ld[1].movies) = Len(ld[2].movies))
    => /\ BagCardinality(table) = Len(ld[1].movies)
       /\ \A i \in 1..Len(ld[1].movies) : RowsOf(table, ld[1].movies[i].id) = 1

\* C9 witness: both runs have loaded the same two records.
C9_Witness ==
    /\ ld[1].pc = "returned" /\ ld[2].pc = "returned"
    /\ Len(ld[1].movies) = 2
    /\ DistinctUsable(ld[1].movies)
    /\ Range(ld[1].movies) = Range(ld[2].movies)
    /\ Len(ld[2].movies) = 2
    /\ BagCardinality(table) = 2

\* C10: whatever the sequential load_movies calls were given, the landing
\* table holds at most one row per identifier.
C10_AtMostOneRowPerId ==
    \A row \in DOMAIN table : RowsOf(table, row.movie_id) = 1

\* C10 witness: a call that repeated an identifier in its input, followed by a
\* second call that loaded the identifier again.
C10_Witness ==
    /\ ld[1].pc = "returned" /\ ld[2].pc = "returned"
    /\ Len(ld[1].movies) = 2
    /\ Usable(ld[1].movies[1])
    /\ ld[1].movies[1].id = ld[1].movies[2].id
    /\ \E i \in 1..Len(ld[2].movies) : ld[2].movies[i].id = ld[1].movies[1].id
    /\ RowsOf(table, ld[1].movies[1].id) = 1

\* The indices of the records of a list that carry an identifier.
WithId(movies) == {i \in 1..Len(movies) : movies[i].id # NoId}

\* The last record of a list that carries identifier movie_id.
LastWithId(movies, movie_id) ==
    LET at == {i \in WithId(movies) : movies[i].id = movie_id}
    IN  movies[CHOOSE i \in at : \A j \in at : j <= i]

\* What one clean load of a list into an empty table leaves for an identifier:
\* no row if no record carries it, else one row with the last such record.
CleanLoadLeaves(t, movies, movie_id) ==
    IF \E i \in WithId(movies) : movies[i].id = movie_id
    THEN /\ RowsOf(t, movie_id) = 1
         /\ \A row \in DOMAIN t :
               row.movie_id = movie_id => row.raw_data = LastWithId(movies, movie_id)
    ELSE RowsOf(t, movie_id) = 0

\* The statements loader r has handed to cursor.execute.
StatementsOf(r) == SelectSeq(stmt_log, LAMBDA e : e.run = r)

\* C12: load_movies returns the number of records of its input that carry an
\* identifier, no row without an identifier is ever in the landing table, and
\* the rows a call wrote are those of the identifiers its input carries.
C12_WritesUsableOnly ==
    /\ \A row \in DOMAIN table : row.movie_id # NoId
    /\ \A r \in Runs :
          ld[r].pc = "returned" =>
             /\ ld[r].total_loaded = Cardinality(WithId(ld[r].movies))
             /\ \A i \in WithId(ld[r].movies) : RowsOf(table, ld[r].movies[i].id) >= 1
             /\ (\A q \in Runs : q > r => ld[q].pc = "new") =>
                   {row.movie_id : row \in {x \in DOMAIN table : x.batch_id = r}}
                      = {ld[r].movies[i].id : i \in WithId(ld[r].movies)}

\* C12 witness: a call given one record without an identifier and one with
\* has written the one row and returned 1.
C12_Witness ==
    /\ ld[1].pc = "returned"
    /\ Len(ld[1].movies) = 2
    /\ ld[1].movies[1].id = NoId
    /\ ld[1].movies[2].id # NoId
    /\ ld[1].total_loaded = 1
    /\ BagCardinality(table) = 1

\* The indices of the batch of load_movies call l that holds index i.
BatchOf(l, i) ==
    LET batch_start == ((i - 1) \div l.batch_size) * l.batch_size + 1
    IN  batch_start..Min(batch_start + l.batch_size - 1, Len(l.movies))

\* C13: when an upsert fails, no record of the batch being loaded is in the
\* landing table afterwards (but for a row an earlier batch of the call wrote).
C13_WholeBatch ==
    [][\A r \in Runs :
          (ld[r].pc = "loading" /\ ld'[r].pc = "failed") =>
             LET l == ld[r]
                 batch == BatchOf(l, NextUsable(l.movies, l.pos))
             IN  \A j \in batch \cap WithId(l.movies) :
                    \/ SourceRow(l, l.movies[j]) \notin DOMAIN table'
                    \/ \E k \in 1..Len(l.movies) :
                          k \notin batch /\ k < j /\ l.movies[k] = l.movies[j]]_vars

\* C14: a load that crashed part-way followed by a full load of the same
\* records leaves, for every identifier, what one clean load of those records
\* into the empty table leaves: one row with the record's payload, or none.
C14_CrashThenRerun ==
    /\ (ld[1].pc = "returned" /\ ld[2].pc = "new") =>
          \A movie_id \in 1..MaxId : CleanLoadLeaves(table, ld[1].movies, movie_id)
    /\ (ld[1].pc = "failed" /\ ld[2].pc = "returned" /\ ld[2].movies = ld[1].movies) =>
          \A movie_id \in 1..MaxId : CleanLoadLeaves(table, ld[1].movies, movie_id)

\* C14 witness: the first load wrote a record and crashed on the next one, and
\* the second load of the same two records has returned.
C14_Witness ==
    /\ ld[1].pc = "failed" /\ ld[2].pc = "returned"
    /\ ld[2].movies = ld[1].movies
    /\ Len(StatementsOf(1)) = 2
    /\ ld[2].total_loaded = 2
    /\ BagCardinality(table) = 2

\* C17: load_movies given the empty list returns 0 from its first statement:
\* it never reaches the batch loop and hands no statement to the storage.
C17_EmptyListNoStatement ==
    \A r \in Runs :
       ld[r].movies = <<>> =>
          /\ ld[r].pc \in {"new", "returned"}
          /\ ld[r].total_loaded = 0
          /\ StatementsOf(r) = <<>>

\* C17 witness: the second call was given the empty list and has returned,
\* after a first call that wrote a row.
C17_Witness ==
    /\ ld[1].pc = "returned" /\ ld[1].total_loaded = 1
    /\ ld[2].pc = "returned" /\ ld[2].movies = <<>>
    /\ ld[2].total_loaded = 0
    /\ BagCardinality(table) = 1
    /\ Len(stmt_log) = 1

\* The rows of the snapshot table that carry run identifier r.
SnapshotOf(r) == {row \in DOMAIN snapshot : row.batch_id = r}

\* C18: load_genres given the empty list returns 0 and issues no statement;
\* given any other list it returns 1 and has written one row, holding the whole
\* list and tagged with the loader's batch_id.
C18_OneSnapshotRow ==
    \A r \in Runs :
       ld[r].genres_pc = "returned" =>
          IF ld[r].genres = <<>>
          THEN /\ ld[r].genres_loaded = 0
               /\ SnapshotOf(r) = {}
               /\ StatementsOf(r) = <<>>
          ELSE /\ ld[r].genres_loaded = 1
               /\ \E row \in SnapshotOf(r) :
                     /\ SnapshotOf(r) = {row}
                     /\ snapshot[row] = 1
                     /\ row.raw_data = ld[r].genres
               /\ Len(StatementsOf(r)) = 1

\* C18 witness: one call has returned 0 for the empty list, the other has
\* returned 1 for a list of MaxGenres entries.
C18_Witness ==
    /\ ld[1].genres_pc = "returned" /\ ld[1].genres = <<>>
    /\ ld[2].genres_pc = "returned" /\ Len(ld[2].genres) = MaxGenres
    /\ ld[2].genres_loaded = 1
    /\ BagCardinality(snapshot) = 1

\* The runs whose load_genres wrote its list.
WroteGenres == {r \in Runs : ld[r].genres_pc = "returned" /\ ld[r].genres # <<>>}

\* C19: the snapshot table holds one row per run that loaded a non-empty
\* list, tagged with that run and holding its list, and no step takes a row
\* out of it or changes one.
C19_AppendOnly ==
    /\ [](/\ BagCardinality(snapshot) = Cardinality(WroteGenres)
          /\ \A r \in WroteGenres :
                \E row \in SnapshotOf(r) : row.raw_data = ld[r].genres)
    /\ [][\A row \in DOMAIN snapshot :
             row \in DOMAIN snapshot' /\ snapshot'[row] >= snapshot[row]]_vars

\* C19 witness: both runs have loaded the same list and the table holds two
\* rows.
C19_Witness ==
    /\ WroteGenres = Runs
    /\ ld[1].genres = ld[2].genres
    /\ BagCardinality(snapshot) = 2
    /\ SnapshotOf(1) # {} /\ SnapshotOf(2) # {}

\* C11: a run that completes reports n - k extracted records and k errors,
\* n being the distinct items the list pages carried and k those whose detail
\* fetch failed; and no failed detail fetch ends the run.
C11_StatsCountFailures ==
    /\ pl_error.during # "detail"
    /\ pl_pc = "done" =>
          LET n == Cardinality(seen_ids)
              k == n - Len(yielded)
          IN  /\ stats.movies_extracted = n - k
              /\ stats.errors = k

\* The statements of the loading block of run_pipeline.
BlockSteps == {"ensure_tables_exist", "load_genres", "load_movies", "run_post_load_checks"}

\* C15: once run_pipeline is over its storage connection is not open, however
\* the loading block was left; and an exception raised in the block has left
\* run_pipeline too.
C15_ConnectionClosed ==
    pl_pc \in {"done", "failed"} =>
       /\ ld[1].conn # "open"
       /\ pl_error.during \in BlockSteps => pl_pc = "failed" /\ ld[1].conn = "closed"
       /\ (pl_pc = "done" /\ ~dry_run) => ld[1].conn = "closed"

\* C15 witness: an upsert raised after ensure_tables_exist and load_genres had
\* run; the run is over with that exception and the connection is closed.
C15_Witness ==
    /\ pl_pc = "failed"
    /\ pl_error = StorageError("load_movies")
    /\ ld[1].pc = "failed"
    /\ ld[1].conn = "closed"
    /\ Len(stmt_log) >= 4

\* C16: from its start to its return a dry run opens no storage connection,
\* issues no statement and leaves both tables as they were; it returns the
\* statistics of the extraction, with nothing loaded.
C16_DryRunWritesNothing ==
    (dry_run /\ pl_pc # "idle") =>
       /\ ld[1].conn = "none"
       /\ stmt_log = <<>>
       /\ table = EmptyBag /\ snapshot = EmptyBag
       /\ pl_pc \in {"genres", "movies", "done", "failed"}
       /\ pl_pc = "done" =>
             /\ stats.movies_extracted = Len(yielded)
             /\ stats.genres_extracted = Len(genres)
             /\ stats.movies_loaded = 0 /\ stats.genres_loaded = 0

\* C16 witness: a dry run that extracted a genre and a record has returned.
C16_Witness ==
    /\ dry_run /\ pl_pc = "done"
    /\ stats.movies_extracted >= 1
    /\ stats.genres_extracted >= 1
    /\ session = "closed"

\* C20: when run_post_load_checks finds the landing table empty it logs the
\* failure and returns: the block is left without an exception and
\* run_pipeline goes on to return its statistics.
C20_FailedValidationNotFatal ==
    checks = "failed" =>
       /\ pl_error = NoError
       /\ pl_pc \in {"exit", "done"}
       /\ pl_pc = "done" => stats.movies_loaded = 0 /\ ld[1].conn = "closed"

\* C20 witness: the validation failed and the run has returned its statistics.
C20_Witness ==
    /\ checks = "failed"
    /\ pl_pc = "done"
    /\ table = EmptyBag
    /\ Len(StatementsOf(1)) >= 4

\* C21: when the genre call or a list-page call raises, the exception leaves
\* the extraction at the next step (the stream is aborted, run_pipeline has
\* failed) and from then on nothing more is yielded and no request is issued.
C21_FatalFaultPropagates ==
    [][/\ (get_state = "raised" /\ endpoint.path = "popular") =>
             /\ ex_pc' = "aborted" /\ ex_error' = [exc |-> result.exc, during |-> "popular"]
             /\ yielded' = yielded /\ get_state' = "idle"
       /\ (get_state = "raised" /\ endpoint.path = "genres") =>
             /\ pl_pc' = "failed" /\ pl_error' = [exc |-> result.exc, during |-> "genres"]
             /\ ex_pc' = "idle" /\ get_state' = "idle"
       /\ (ex_error.during = "popular" \/ pl_error.during = "genres") =>
             /\ yielded' = yielded /\ pages_fetched' = pages_fetched
             /\ detail_calls' = detail_calls
             /\ get_state' = "idle" /\ hist' = hist /\ ex_pc' = ex_pc
             /\ pl_pc' = "failed"]_vars

\* C21 witness: the second list page failed on a client error after the first
\* page's record had been yielded, and the run has failed with that error.
C21_Witness ==
    /\ pl_pc = "failed"
    /\ pl_error = [exc |-> "ValueError", during |-> "popular"]
    /\ pages_fetched = <<1, 2>>
    /\ Len(yielded) >= 1
    /\ get_state = "idle"

\* C22: main returns 0 exactly when run_pipeline returned its statistics, and
\* 1 otherwise.
C22_ExitCodeTellsSuccess ==
    exit_code # <<>> =>
       /\ exit_code \in {<<0>>, <<1>>}
       /\ exit_code = <<0>> <=> pl_pc = "done"

\* A 429 that carries no Retry-After header.
HasNoRetryAfter(resp) == IsRateLimited(resp) /\ resp.retry_after.form = "absent"

\* C23 as stated: after a 429 without a Retry-After header, the wait before
\* the next attempt is the backoff delay of that attempt number and the fixed
\* spacing, nothing more.
C23_BackoffOnly ==
    \A i \in 1..(Len(hist) - 1) :
        HasNoRetryAfter(hist[i].resp)
        => hist[i + 1].gap = WaitExponential(i) + REQUEST_DELAY_SECONDS

\* C23: after a 429 without a Retry-After header, the wait before the next
\* attempt is a default of 10 seconds, then the backoff delay of that attempt
\* number, then the fixed spacing.
C23_DefaultThenBackoff ==
    \A i \in 1..(Len(hist) - 1) :
        HasNoRetryAfter(hist[i].resp)
        => hist[i + 1].gap =
               DefaultRetryAfter * Second + WaitExponential(i) + REQUEST_DELAY_SECONDS

\* C23 witness: the second attempt of a call met a 429 without the header, and
\* a third attempt was made.
C23_Witness ==
    /\ Len(hist) >= 3
    /\ HasNoRetryAfter(hist[2].resp)
    /\ ~IsRateLimited(hist[1].resp)

\* C24: a 429 met before the fifth attempt is followed by another attempt of
\* the same call, whatever its Retry-After header holds.
C24_Every429Retried ==
    \A i \in 1..Len(hist) :
        (IsRateLimited(hist[i].resp) /\ i < StopAfterAttempt)
        => (Len(hist) > i \/ get_state = "running")

\* C25: once the extraction block of run_pipeline has been left, normally or
\* by an exception of the genre call or of the record stream, the run's HTTP
\* session is closed; inside the block it is open.
C25_SessionReleased ==
    /\ pl_pc \in {"genres", "movies"} => session = "open"
    /\ pl_pc \notin {"idle", "genres", "movies"} => session = "closed"

\* C25 witness: a run that failed on the exhausted retries of the genre call,
\* with the session closed.
C25_Witness ==
    /\ pl_pc = "failed"
    /\ pl_error.during = "genres"
    /\ pl_error.exc = "RetryError"
    /\ session = "closed"

\* The place of a statement in the order of the storage steps.
Rank(stmt) ==
    CASE stmt \in {"create_raw_movies", "create_raw_genres"} -> 1
      [] stmt = "insert_genres"                              -> 2
      [] stmt = "merge"                                      -> 3
      [] stmt \in {"count_raw_movies", "count_raw_genres"}   -> 4

\* C26: in a non-dry run the statements reach the store in the order of the
\* steps: the table DDL of ensure_tables_exist (both tables, completed) before
\* any insert or upsert, the genre snapshot insert before the first record
\* upsert, and the counts of the post-load validation after the last upsert.
C26_StorageStepsInOrder ==
    /\ \A i, j \in 1..Len(stmt_log) :
          i < j => Rank(stmt_log[i].stmt) <= Rank(stmt_log[j].stmt)
    /\ (\E i \in 1..Len(stmt_log) : Rank(stmt_log[i].stmt) >= 2)
       => /\ Len(stmt_log) >= 3
          /\ stmt_log[1].stmt = "create_raw_movies"
          /\ stmt_log[2].stmt = "create_raw_genres"
    /\ pl_pc \in {"load_movies", "run_post_load_checks"} /\ genres # <<>>
       => \E i \in 1..Len(stmt_log) : stmt_log[i].stmt = "insert_genres"
    /\ dry_run => stmt_log = <<>>

\* C26 witness: a completed run that inserted the genre snapshot, upserted
\* two records and counted both tables.
C26_Witness ==
    /\ pl_pc = "done"
    /\ Len(SelectSeq(stmt_log, LAMBDA e : e.stmt = "merge")) = 2
    /\ Len(SelectSeq(stmt_log, LAMBDA e : e.stmt = "insert_genres")) = 1
    /\ Len(SelectSeq(stmt_log, LAMBDA e : e.stmt = "count_raw_genres")) = 1

\* C27: every attempt of a call, the first one and each retry, is issued at
\* least the fixed spacing after the request before it: the time since then
\* is the spacing sleep of the attempt itself, on top of whatever the previous
\* attempt caused to be waited (its Retry-After sleep and the backoff).
C27_SpacingBeforeEveryAttempt ==
    \A i \in 1..Len(hist) :
        /\ hist[i].gap >= REQUEST_DELAY_SECONDS
        /\ hist[i].gap = REQUEST_DELAY_SECONDS +
              (IF i = 1 THEN 0
               ELSE Attempt(hist[i - 1].resp).sleep + WaitExponential(i - 1))

\* C27 witness: a call whose five attempts all met a server error or a
\* timeout, so that four of them are retries.
C27_Witness ==
    /\ Len(hist) = StopAfterAttempt
    /\ \A i \in 1..Len(hist) :
          IsServerError(hist[i].resp) \/ hist[i].resp.kind = "timeout"
    /\ hist[StopAfterAttempt].gap = REQUEST_DELAY_SECONDS + WaitExponential(4)

\* C28: at every request, the requests issued within the 10 seconds up to it
\* (itself included) number strictly fewer than the API ceiling of 40.
C28_UnderRateCeiling == Len(recent) < RATE_LIMIT_REQUESTS

\* C28 witness: 39 requests within one window, issued back to back at the
\* fixed spacing, the oldest 9.88 s ago.
C28_Witness ==
    /\ Len(recent) = RATE_LIMIT_REQUESTS - 1
    /\ recent[1] = (RATE_LIMIT_REQUESTS - 2) * REQUEST_DELAY_SECONDS

\* C30: within one stream the detail endpoint is called at most once for each
\* distinct identifier of the list, exactly for those recorded as seen,
\* whether that one call returned a record or failed.
C30_DetailOncePerId ==
    \A movie_id \in ListIds :
        /\ detail_calls[movie_id] <= 1
        /\ detail_calls[movie_id] = 1 <=> movie_id \in seen_ids

\* C30 witness: the list repeats, as the last item of page 2, an identifier
\* whose only detail call failed (no record of it was yielded); it is the item
\* the stream looks at next.
C30_Witness ==
    /\ ex_pc = "items"
    /\ pages_fetched = <<1, 2>>
    /\ seen_ids = {1}
    /\ yielded = <<>>
    /\ detail_calls[1] = 1
    /\ movies_on_page = <<1>>

\* The steps one _get call can take at most: its start, StopAfterAttempt
\* attempts, and the caller taking its outcome.
CallSteps == StopAfterAttempt + 2
\* The steps the items of one page and one whole page can take at most.
ItemsSteps(n) == n * CallSteps + 1
PageSteps == CallSteps + ItemsSteps(MaxId)
\* The steps left to the call in progress.
CallRest == IF get_state = "running" THEN StopAfterAttempt - Len(hist) + 1 ELSE 1
\* An upper bound of the steps left to the stream.
StepsLeft ==
    CASE ex_pc = "idle"         -> (MaxPages + 2) * PageSteps
      [] ex_pc = "fetch_page"   -> (pages_to_fetch - page + 1) * PageSteps
      [] ex_pc = "await_page"   ->
            (pages_to_fetch - page) * PageSteps + ItemsSteps(MaxId) + CallRest
      [] ex_pc = "items"        ->
            (pages_to_fetch - page) * PageSteps + ItemsSteps(Len(movies_on_page))
      [] ex_pc = "await_detail" ->
            (pages_to_fetch - page) * PageSteps + ItemsSteps(Len(movies_on_page))
            + CallRest
      [] OTHER                  -> 0

\* C29: whatever the API answers, a stream with a finite page limit ends or
\* raises after finitely many steps. It makes at most page_limit list calls,
\* a detail call only for an item taken from the list (one call per item at
\* most), and at most 5 attempts per call; it is never stuck before its end,
\* where it has either ended normally or raised an error; and every step
\* lowers a bound on the steps left, which is never negative.
C29_StreamTerminates ==
    /\ [](/\ ex_pc # "idle" => Len(pages_fetched) <= pages_to_fetch
          /\ Len(hist) <= StopAfterAttempt
          /\ StepsLeft >= 0
          /\ ex_pc \in {"done", "aborted"} \/ ENABLED NextStream
          /\ ex_pc = "aborted" <=> ex_error # NoError)
    /\ [][/\ StepsLeft' < StepsLeft
          /\ \A movie_id \in ListIds :
                (ex_pc # "idle" /\ detail_calls'[movie_id] # detail_calls[movie_id])
                => /\ movies_on_page # <<>>
                   /\ Head(movies_on_page) = movie_id
                   /\ movies_on_page' = Tail(movies_on_page)
                   /\ detail_calls'[movie_id] = detail_calls[movie_id] + 1]_vars

\* C29 witness: a stream over two pages whose detail calls all failed has
\* ended normally, with nothing yielded.
C29_Witness ==
    /\ ex_pc = "done"
    /\ pages_fetched = <<1, 2>>
    /\ yielded = <<>>
    /\ \A movie_id \in ListIds : detail_calls[movie_id] = 1

\* C31: the pages_fetched of the statistics a run returns is the number of
\* list pages the run requested from the API.
C31_PagesFetchedIsActual ==
    pl_pc = "done" => stats.pages_fetched = Len(pages_fetched)

\* The steps of run_pipeline during which extraction has not finished.
Extracting == {"genres", "movies"}
\* The calls of the extraction block an exception can come from.
ExtractionCalls == {"genres", "popular", "detail"}
\* Storage as it was before the run: no connection, no statement, no row.
StorageUntouched ==
    /\ ld[1].conn = "none"
    /\ stmt_log = <<>>
    /\ table = EmptyBag /\ snapshot = EmptyBag

\* C32: while the genre list and the records are being extracted no storage
\* connection is open and no statement has been issued; storage is touched
\* only by a run whose extraction has ended normally (stream exhausted, no
\* call in progress, session closed); a run that failed on an exception of
\* extraction leaves both tables as they were.
C32_LoadOnlyAfterExtraction ==
    /\ pl_pc \in Extracting => StorageUntouched
    /\ ~StorageUntouched =>
          /\ ex_pc = "done" /\ get_state = "idle" /\ session = "closed"
          /\ stats.movies_extracted = Len(yielded)
          /\ pl_error.during \notin ExtractionCalls
    /\ (pl_pc = "failed" /\ pl_error.during \in ExtractionCalls) => StorageUntouched

\* C32 witness: the stream raised on a list call after a record had been
\* yielded, the run has failed, and storage is as it was.
C32_Witness ==
    /\ pl_pc = "failed"
    /\ pl_error.during = "popular"
    /\ pl_error.exc = "RetryError"
    /\ Len(yielded) >= 1
    /\ StorageUntouched

\* The records of a list that carry an identifier, in input order.
UsableRecords(movies) == SelectSeq(movies, Usable)

\* The table after the records of a list have been merged into t one by one,
\* in order, by the call of loader l.
RECURSIVE MergedInOrder(_, _, _)
MergedInOrder(t, l, records) ==
    IF records = <<>> THEN t
    ELSE MergedInOrder(Merge(t, SourceRow(l, Head(records))), l, Tail(records))

\* C33: whatever the batch_size (1, one that divides the list, one that leaves
\* a smaller last batch, one larger than the list), the k-th upsert of a
\* load_movies call writes the k-th record of the input that carries an
\* identifier, and the call returns the number of those records and leaves
\* the table that merging them one by one in input order leaves.
C33_BatchSizeIrrelevant ==
    /\ [](ld[1].pc = "returned" =>
            /\ ld[1].total_loaded = Len(UsableRecords(ld[1].movies))
            /\ table = MergedInOrder(EmptyBag, ld[1], UsableRecords(ld[1].movies)))
    /\ [][ld'[1].total_loaded # ld[1].total_loaded =>
            /\ ld'[1].total_loaded = ld[1].total_loaded + 1
            /\ ld'[1].total_loaded <= Len(UsableRecords(ld[1].movies))
            /\ table' = Merge(table, SourceRow(ld[1],
                               UsableRecords(ld[1].movies)[ld'[1].total_loaded]))]_vars

\* C33 witness: a call with batch_size 2 has written all three records of its
\* list, the third (alone in the last batch) overwriting the first.
C33_Witness ==
    /\ ld[1].pc = "loading"
    /\ ld[1].batch_size = 2
    /\ Len(ld[1].movies) = 3
    /\ ld[1].total_loaded = 3
    /\ ld[1].movies[1].id = ld[1].movies[3].id
    /\ ld[1].movies[1].payload # ld[1].movies[3].payload
    /\ BagCardinality(table) = 2

\* The identifiers the records of a list carry.
IdsOf(movies) == {movies[i].id : i \in WithId(movies)}

\* The rows of table t whose identifier is not in ids are in table u as they
\* are in t: same payload, ingestion time and run identifier, same number.
SameOutside(t, u, ids) ==
    \A row \in DOMAIN t :
        row.movie_id \notin ids => (row \in DOMAIN u /\ u[row] = t[row])

\* C34: a step that changes the landing table is an upsert of a load_movies
\* call; it leaves every row whose identifier is not in the call's input as
\* it was and adds no such row, it lowers the number of rows of no
\* identifier, and it leaves the snapshot table unchanged. A load_genres call
\* leaves the landing table unchanged.
C34_WritesOnlyItsOwn ==
    [][/\ table' # table =>
             \E r \in Runs :
                /\ ld[r].pc = "loading"
                /\ ld'[r].total_loaded = ld[r].total_loaded + 1
                /\ SameOutside(table, table', IdsOf(ld[r].movies))
                /\ SameOutside(table', table, IdsOf(ld[r].movies))
       /\ \A movie_id \in 1..MaxId : RowsOf(table', movie_id) >= RowsOf(table, movie_id)
       /\ (\E r \in Runs : ld[r].pc = "loading" \/ ld'[r].pc = "loading")
             => snapshot' = snapshot
       /\ (\E r \in Runs : ld'[r].genres_pc # ld[r].genres_pc) => table' = table]_vars

\* C34 witness: the second run has loaded its genre list and a record, and
\* the landing table still holds, as the first run wrote it, a row whose
\* identifier the second run's input does not carry.
C34_Witness ==
    /\ ld[2].pc = "returned"
    /\ ld[2].total_loaded >= 1
    /\ BagCardinality(snapshot) = 2
    /\ \E row \in DOMAIN table :
          /\ row.batch_id = 1
          /\ row.ingested_at = ld[1].ingested_at
          /\ row.movie_id \notin IdsOf(ld[2].movies)
    /\ \E row \in DOMAIN table : row.batch_id = 2

\* The record the i-th statement of the log wrote: the k-th record with an
\* identifier of its run's input, the statement being the k-th of that run.
WrittenBy(i) ==
    LET r == stmt_log[i].run
        k == Cardinality({j \in 1..i : stmt_log[j].run = r})
    IN  SourceRow(ld[r], UsableRecords(ld[r].movies)[k])

\* The statements of the log that wrote identifier movie_id.
WritesOf(movie_id) == {i \in 1..Len(stmt_log) : WrittenBy(i).movie_id = movie_id}

\* C35: with the upserts of two runs interleaved in any order, the landing
\* table holds at any time, and so after both runs have finished, no row of an
\* identifier that was not written and exactly one row of each identifier
\* that was: the source row of the last upsert of that identifier, payload,
\* ingestion time and run identifier together.
C35_LastWriterWins ==
    \A movie_id \in 1..MaxId :
        IF WritesOf(movie_id) = {}
        THEN RowsOf(table, movie_id) = 0
        ELSE LET last == CHOOSE i \in WritesOf(movie_id) :
                             \A j \in WritesOf(movie_id) : j <= i
             IN  /\ RowsOf(table, movie_id) = 1
                 /\ WrittenBy(last) \in DOMAIN table

\* C35 witness: both runs have finished; their upserts were interleaved, run
\* 2 (which started later) writing between two upserts of run 1, and a row of
\* an identifier both wrote is the one run 1 wrote last.
C35_Witness ==
    /\ ld[1].pc = "returned" /\ ld[2].pc = "returned"
    /\ Len(stmt_log) = 4
    /\ stmt_log[1].run = 1 /\ stmt_log[2].run = 2
    /\ stmt_log[3].run = 2 /\ stmt_log[4].run = 1
    /\ ld[2].ingested_at > ld[1].ingested_at
    /\ \E row \in DOMAIN table :
          /\ row.movie_id \in IdsOf(ld[1].movies) \cap IdsOf(ld[2].movies)
          /\ row.batch_id = 1
          /\ row.ingested_at = ld[1].ingested_at

=============================================================================
